---- MODULE Spec2Model ----
(***************************************************************************)
(* Model of the Lutron Caseta PRO bridge connection                        *)
(* (custom_components/lutron_caseta_pro/__init__.py, class Caseta and its  *)
(* inner classes CallbackHolder and CasetaBridge) together with the        *)
(* platform setup of sensor.py that drives it.                             *)
(*                                                                         *)
(* The protocol codec (module casetify) is an external collaborator of the *)
(* connection; the model keeps of it only its contract: open, read, write, *)
(* query, ping, is_connected.                                              *)
(*                                                                         *)
(* The second part models what the registered handlers do with a message:  *)
(* the button processor of a Pico remote (sensor.py, classes               *)
(* CasetaSensorData, PicoRemoteButtonProcessor and CasetaPicoRemote) and   *)
(* the state echo of the other devices (CasetaData.read_output).           *)
(*                                                                         *)
(* Every coroutine is cut at its await points: one action is the code that *)
(* runs between two suspensions of a task of the asyncio event loop.       *)
(***************************************************************************)
EXTENDS Naturals, Sequences, FiniteSets, TLC

\* ------------------------------------------------------------------ bounds
\* number of messages the transport delivers to the codec in one run
MaxMsgs == 2
\* number of messages buffered in the codec and not yet read
MaxInbox == 1
\* number of reconnect attempts that may hang inside the codec at once
MaxPendingOpens == 1
\* number of write()/query() calls made by the entities in one run
MaxCmds == 1

\* ------------------------------------------------------- sets of the model
\* the hosts of the configured bridges
Hosts == {"h1", "h2"}
\* the platform setups (one async_setup_platform call each); each owns the
\* data holder whose read_output method it registers
Setups == {"sensor", "light"}
\* identities of the CasetaBridge objects that can be constructed
BridgeIds == 1..Cardinality(Setups)
\* modes of a parsed message; NoMode is the empty frame (mode is None)
NoMode == "None"
Modes == {"OUTPUT", "DEVICE"}
\* absence of an object reference
None == 0
\* the _host of a CasetaBridge that has not been constructed
NoHost == "none"

\* number of press and release messages the remotes get in one run
MaxEvents == 4
\* number of messages the other devices' data holder gets in one run
MaxEchoes == 3

\* integration ids of the Pico remotes of the integration report
Remotes == {2, 3}
\* CONF_BUTTONS of a Pico remote: the button numbers of its report entry
PicoButtons == {2, 3}
\* integration ids of the devices of the other platforms (lights, switches)
SimpleDevices == {5, 6}
\* an integration id that is in no device list
UnknownId == 9
\* Caseta.Button.PRESS, Caseta.Button.RELEASE and any other value of a
\* DEVICE message
ButtonValues == {"PRESS", "RELEASE", "OTHER"}
\* Caseta.Action.SET and any other action of an OUTPUT message
OutputActions == {"SET", "OTHER"}
\* values of an OUTPUT message (levels)
Levels == {0, 50, 100}
\* PicoRemoteButtonProcessor.Modifier
Modifier_short == 0
Modifier_double == 64
Modifier_long == 128
\* timeout_between_press, in seconds; the clock of the model ticks seconds
PressTimeout == 3
\* CasetaPicoRemote.__init__: self._minbutton = 100
MinButtonStart == 100

\* button_combination entries of the configuration used in the model
Rule12 == [combination |-> <<1, 2>>, code |-> 99]
Rule1 == [combination |-> <<1>>, code |-> 50]
Rule12b == [combination |-> <<1, 2>>, code |-> 98]
RuleLists == {<<>>, <<Rule12>>, <<Rule1, Rule12>>, <<Rule12b, Rule12>>}
\* what CasetaPicoRemote.__init__ finds for a remote: no silent_press key
\* is silent_press False, no entry at all is no key and no combinations
CombConfigs ==
    {[silent_press |-> sp, combinations |-> rl] :
         sp \in BOOLEAN, rl \in RuleLists}
NoCombConfig == [silent_press |-> FALSE, combinations |-> <<>>]

VARIABLES
    \* ---- class attribute CasetaBridge.host_list and the objects made
    host_list,      \* [Hosts -> BridgeIds \cup {None}]
    nBridges,       \* number of CasetaBridge objects constructed
    \* ---- CasetaBridge attributes, per bridge object
    _host,          \* [BridgeIds -> Hosts \cup {NoHost}]
    _casetify,      \* [BridgeIds -> Nat]  None, or the number of the codec object
    _hass,          \* [BridgeIds -> BOOLEAN]  FALSE is None
    _callbacks,     \* [BridgeIds -> Seq(Setups)]  holders, by the owner they refer to
    \* ---- codec session of a bridge (contract of casetify.Casetify)
    link,           \* [BridgeIds -> {"closed", "up", "lost"}]
    inbox,          \* [BridgeIds -> Seq(message)]  parsed and not yet read
    \* ---- tasks of the event loop, per bridge
    readWaiting,    \* number of _read_next tasks suspended in codec read()
    dispatch,       \* Seq of [msg, idx]: _read_next tasks walking the callbacks
    pingSleeping,   \* number of _ping tasks in asyncio.sleep(60)
    pingAwaiting,   \* number of _ping tasks suspended in codec ping()
    reconnectReady, \* number of _reconnect tasks created and not yet run
    reconnectOpening, \* number of _reconnect tasks suspended in codec open()
    \* ---- platform setups
    setupHost,      \* [Setups -> Hosts]  discovery_info[CONF_HOST]
    pc,             \* [Setups -> position in async_setup_platform]
    bridge,         \* [Setups -> BridgeIds \cup {None}]  the Caseta wrapper's instance
    alive,          \* [Setups -> BOOLEAN]  the data holder has not been released
    received,       \* [Setups -> Seq(message)]  what its read_output was called with
    \* ---- observations of calls
    openCall,       \* [Setups -> record of the setup's open() call]
    lastCmd,        \* record of the last write()/query() call
    launches,       \* [BridgeIds -> Nat]  times start() launched the two loops
    recovered,      \* [BridgeIds -> BOOLEAN]  a _reconnect attempt has succeeded
    nextMsg,        \* number of the next message of the transport
    nCmds,          \* number of write()/query() calls made
    \* ---- the Pico remotes of the sensor platform
    enable_long_and_double, \* BOOLEAN  discovery_info[CONF_LONG_AND_DBL]
    sensor_devices, \* the integration ids in CasetaSensorData._devices
    comb_config,    \* [Remotes -> the remote's button_combination entry]
    pico,           \* [Remotes -> the processor and the entity of the remote]
    nEvents,        \* number of press and release messages handled
    \* ---- the devices of the other platforms
    data_devices,   \* the integration ids in CasetaData._devices
    level,          \* [SimpleDevices -> the state of the device]
    level0,         \* [SimpleDevices -> its state at construction]
    echoed          \* Seq of the messages CasetaData.read_output was called with

bridgeVars == <<host_list, nBridges, _host, _casetify, _hass, _callbacks>>
codecVars  == <<link, inbox, nextMsg>>
readVars   == <<readWaiting, dispatch>>
pingVars   == <<pingSleeping, pingAwaiting, reconnectReady, reconnectOpening>>
setupVars  == <<setupHost, pc, bridge, openCall>>
subVars    == <<alive, received>>
cmdVars    == <<lastCmd, nCmds>>
connVars == <<bridgeVars, codecVars, readVars, pingVars, setupVars, subVars,
              cmdVars, launches, recovered>>
picoVars == <<enable_long_and_double, sensor_devices, comb_config, pico,
              nEvents>>
echoVars == <<data_devices, level, level0, echoed>>
deviceVars == <<picoVars, echoVars>>
vars == <<connVars, deviceVars>>

\* ------------------------------------------------------------------ codec
\* Casetify.is_connected()
is_connected(b) == link[b] = "up"

\* a call of the codec's open(host) has not returned yet
OpenPending(b) ==
    \/ \E p \in Setups : bridge[p] = b /\ pc[p] = "opening"
    \/ reconnectOpening[b] > 0

\* the record of an open() call that has not been made
NoCall == [called |-> FALSE, connAtCall |-> FALSE, busyAtCall |-> FALSE,
           codecOpen |-> FALSE, returned |-> FALSE, ret |-> FALSE,
           connAtRet |-> FALSE]
NoCmd == [op |-> "none", conn |-> FALSE, ret |-> FALSE, forwarded |-> 0]

\* ------------------------------------------------------------------- Init
InitCommon ==
    /\ host_list = [h \in Hosts |-> None]
    /\ nBridges = 0
    /\ _host = [b \in BridgeIds |-> NoHost]
    /\ _casetify = [b \in BridgeIds |-> None]
    /\ _hass = [b \in BridgeIds |-> FALSE]
    /\ _callbacks = [b \in BridgeIds |-> <<>>]
    /\ link = [b \in BridgeIds |-> "closed"]
    /\ inbox = [b \in BridgeIds |-> <<>>]
    /\ readWaiting = [b \in BridgeIds |-> 0]
    /\ dispatch = [b \in BridgeIds |-> <<>>]
    /\ pingSleeping = [b \in BridgeIds |-> 0]
    /\ pingAwaiting = [b \in BridgeIds |-> 0]
    /\ reconnectReady = [b \in BridgeIds |-> 0]
    /\ reconnectOpening = [b \in BridgeIds |-> 0]
    /\ pc = [p \in Setups |-> "new"]
    /\ bridge = [p \in Setups |-> None]
    /\ alive = [p \in Setups |-> TRUE]
    /\ received = [p \in Setups |-> <<>>]
    /\ openCall = [p \in Setups |-> NoCall]
    /\ lastCmd = NoCmd
    /\ launches = [b \in BridgeIds |-> 0]
    /\ recovered = [b \in BridgeIds |-> FALSE]
    /\ nextMsg = 1
    /\ nCmds = 0

\* PicoRemoteButtonProcessor.__init__ and CasetaPicoRemote.__init__: the
\* processor is idle with no timer, the entity's state is 0; log is what the
\* processor classified and what the entity published
NewPico ==
    [state |-> "idle", button |-> 0,
     timeout_flags |-> <<FALSE, FALSE>>,
     timeout_handle |-> <<FALSE, FALSE>>,
     timers |-> <<0, 0>>,
     key_history |-> <<>>, elapsed |-> 0,
     _state |-> 0, log |-> <<>>]

\* no device is set up
InitDevices ==
    /\ enable_long_and_double = FALSE
    /\ sensor_devices = {}
    /\ comb_config = [r \in Remotes |-> NoCombConfig]
    /\ pico = [r \in Remotes |-> NewPico]
    /\ nEvents = 0
    /\ data_devices = {}
    /\ level = [d \in SimpleDevices |-> 0]
    /\ level0 = [d \in SimpleDevices |-> 0]
    /\ echoed = <<>>

\* one bridge: every platform of the bridge is set up for the same host
Init == InitCommon /\ setupHost = [p \in Setups |-> "h1"] /\ InitDevices

\* several bridges: each platform setup is for any of the hosts
InitHosts == InitCommon /\ setupHost \in [Setups -> Hosts] /\ InitDevices

\* ---------------------------------------------------------- Caseta(host)
\* Caseta.__init__: "if host in Caseta.CasetaBridge.host_list"
HostKnown(h) == host_list[h] # None

\* Caseta.__init__: look the host's CasetaBridge up, construct and record it
\* when there is none (CasetaBridge.__init__ sets _host and leaves the rest
\* None or empty)
CasetaInit(p) ==
    /\ pc[p] = "new"
    /\ LET h == setupHost[p] IN
       IF HostKnown(h)
       THEN /\ bridge' = [bridge EXCEPT ![p] = host_list[h]]
            /\ UNCHANGED <<host_list, nBridges, _host>>
       ELSE /\ nBridges < Cardinality(BridgeIds)
            /\ nBridges' = nBridges + 1
            /\ host_list' = [host_list EXCEPT ![h] = nBridges + 1]
            /\ _host' = [_host EXCEPT ![nBridges + 1] = h]
            /\ bridge' = [bridge EXCEPT ![p] = nBridges + 1]
    /\ pc' = [pc EXCEPT ![p] = "open"]
    /\ UNCHANGED deviceVars
    /\ UNCHANGED <<_casetify, _hass, _callbacks, codecVars, readVars, pingVars,
                   setupHost, openCall, subVars, cmdVars, launches, recovered>>

\* ------------------------------------------------------ CasetaBridge.open
\* open taking "connected" for "a codec object exists"
AlreadyConnected(b) == is_connected(b)

\* open: "if self._casetify is not None" (connection already open)
AlreadyOpen(b) == _casetify[b] # None

\* open() up to its await: returns True at once when a codec object exists,
\* otherwise constructs the codec and suspends in its open(host)
BridgeOpen(p) ==
    /\ pc[p] = "open"
    /\ LET b == bridge[p] IN
       IF AlreadyOpen(b)
       THEN /\ pc' = [pc EXCEPT ![p] = "register"]
            /\ openCall' = [openCall EXCEPT ![p] =
                  [called |-> TRUE, connAtCall |-> is_connected(b),
                   busyAtCall |-> OpenPending(b), codecOpen |-> FALSE,
                   returned |-> TRUE, ret |-> TRUE,
                   connAtRet |-> is_connected(b)]]
            /\ UNCHANGED <<_casetify, link, inbox>>
       ELSE /\ pc' = [pc EXCEPT ![p] = "opening"]
            /\ _casetify' = [_casetify EXCEPT ![b] = @ + 1]
            /\ link' = [link EXCEPT ![b] = "closed"]
            /\ inbox' = [inbox EXCEPT ![b] = <<>>]
            /\ openCall' = [openCall EXCEPT ![p] =
                  [called |-> TRUE, connAtCall |-> is_connected(b),
                   busyAtCall |-> OpenPending(b), codecOpen |-> TRUE,
                   returned |-> FALSE, ret |-> FALSE, connAtRet |-> FALSE]]
    /\ UNCHANGED deviceVars
    /\ UNCHANGED <<host_list, nBridges, _host, _hass, _callbacks, nextMsg,
                   readVars, pingVars, setupHost, bridge, subVars, cmdVars,
                   launches, recovered>>

\* the codec's open(host) returns to open(), having established the session
\* (ok) or not; open() then returns True
OpenReturns(p, ok) ==
    /\ pc[p] = "opening"
    /\ LET b == bridge[p] IN
       /\ link' = [link EXCEPT ![b] = IF ok THEN "up" ELSE @]
       /\ openCall' = [openCall EXCEPT ![p] =
             [@ EXCEPT !.returned = TRUE, !.ret = TRUE,
                       !.connAtRet = (ok \/ is_connected(b))]]
    /\ pc' = [pc EXCEPT ![p] = "register"]
    /\ UNCHANGED deviceVars
    /\ UNCHANGED <<bridgeVars, inbox, nextMsg, readVars, pingVars, setupHost,
                   bridge, subVars, cmdVars, launches, recovered>>

\* ------------------------------------------------- CasetaBridge.register
\* register: append a CallbackHolder for the setup's data.read_output
Register(p) ==
    /\ pc[p] = "register"
    /\ _callbacks' = [_callbacks EXCEPT ![bridge[p]] = Append(@, p)]
    /\ pc' = [pc EXCEPT ![p] = "start"]
    /\ UNCHANGED deviceVars
    /\ UNCHANGED <<host_list, nBridges, _host, _casetify, _hass, codecVars,
                   readVars, pingVars, setupHost, bridge, openCall, subVars,
                   cmdVars, launches, recovered>>

\* ---------------------------------------------------- CasetaBridge.start
\* start without its guard
NotStartedAlways(b) == TRUE

\* start: "if self._hass is None"
NotStarted(b) == ~_hass[b]

\* start: on the first call keep hass and create the _read_next and the
\* _ping task
Start(p) ==
    /\ pc[p] = "start"
    /\ LET b == bridge[p] IN
       IF NotStarted(b)
       THEN /\ _hass' = [_hass EXCEPT ![b] = TRUE]
            /\ readWaiting' = [readWaiting EXCEPT ![b] = @ + 1]
            /\ pingSleeping' = [pingSleeping EXCEPT ![b] = @ + 1]
            /\ launches' = [launches EXCEPT ![b] = @ + 1]
       ELSE UNCHANGED <<_hass, readWaiting, pingSleeping, launches>>
    /\ pc' = [pc EXCEPT ![p] = "done"]
    /\ UNCHANGED deviceVars
    /\ UNCHANGED <<host_list, nBridges, _host, _casetify, _callbacks, codecVars,
                   dispatch, pingAwaiting, reconnectReady, reconnectOpening,
                   setupHost, bridge, openCall, subVars, cmdVars, recovered>>

\* ------------------------------------------------ transport (environment)
\* the transport delivers a frame, which the codec parses into a message;
\* mode NoMode is the empty frame
Arrive(b, mode) ==
    /\ is_connected(b)
    /\ Len(inbox[b]) < MaxInbox
    /\ nextMsg <= MaxMsgs
    /\ inbox' = [inbox EXCEPT ![b] = Append(@, [id |-> nextMsg, mode |-> mode])]
    /\ nextMsg' = nextMsg + 1
    /\ UNCHANGED deviceVars
    /\ UNCHANGED <<bridgeVars, link, readVars, pingVars, setupVars, subVars,
                   cmdVars, launches, recovered>>

\* the transport of an established session is severed; what the codec had
\* buffered of its stream is gone with it
Sever(b) ==
    /\ is_connected(b)
    /\ link' = [link EXCEPT ![b] = "lost"]
    /\ inbox' = [inbox EXCEPT ![b] = <<>>]
    /\ UNCHANGED deviceVars
    /\ UNCHANGED <<bridgeVars, nextMsg, readVars, pingVars, setupVars, subVars,
                   cmdVars, launches, recovered>>

\* the object owning a registered callback (the platform's data holder) is
\* released once its setup has finished
Release(p) ==
    /\ pc[p] = "done"
    /\ alive[p]
    /\ alive' = [alive EXCEPT ![p] = FALSE]
    /\ UNCHANGED deviceVars
    /\ UNCHANGED <<bridgeVars, codecVars, readVars, pingVars, setupVars,
                   received, cmdVars, launches, recovered>>

\* ----------------------------------------------- CasetaBridge._read_next
\* _read_next without the test for the empty frame
EmptyFrameNever(m) == FALSE

\* _read_next: "if mode is None"
EmptyFrame(m) == m.mode = NoMode

ReadReturnsEarly(b) ==
    /\ readWaiting[b] > 0
    /\ is_connected(b)
    /\ inbox[b] # <<>>
    /\ LET m == Head(inbox[b]) IN
       IF EmptyFrame(m) \/ _callbacks[b] = <<>>
       THEN UNCHANGED <<readWaiting, dispatch>>
       ELSE /\ UNCHANGED readWaiting
            /\ dispatch' = [dispatch EXCEPT ![b] =
                               Append(@, [msg |-> m, idx |-> 1])]
    /\ inbox' = [inbox EXCEPT ![b] = Tail(@)]
    /\ UNCHANGED deviceVars
    /\ UNCHANGED <<bridgeVars, link, nextMsg, pingVars, setupVars, subVars,
                   cmdVars, launches, recovered>>

\* _read_next from the return of codec read(): an empty frame, or a message
\* for no callback at all, ends the task after creating the next one;
\* otherwise the task starts to walk the callbacks
ReadReturns(b) ==
    /\ readWaiting[b] > 0
    /\ is_connected(b)
    /\ inbox[b] # <<>>
    /\ LET m == Head(inbox[b]) IN
       IF EmptyFrame(m) \/ _callbacks[b] = <<>>
       THEN UNCHANGED <<readWaiting, dispatch>>
       ELSE /\ readWaiting' = [readWaiting EXCEPT ![b] = @ - 1]
            /\ dispatch' = [dispatch EXCEPT ![b] =
                               Append(@, [msg |-> m, idx |-> 1])]
    /\ inbox' = [inbox EXCEPT ![b] = Tail(@)]
    /\ UNCHANGED deviceVars
    /\ UNCHANGED <<bridgeVars, link, nextMsg, pingVars, setupVars, subVars,
                   cmdVars, launches, recovered>>

\* codec read() fails on a lost transport: the exception ends the task, and
\* nothing creates another
ReadFails(b) ==
    /\ readWaiting[b] > 0
    /\ link[b] = "lost"
    /\ readWaiting' = [readWaiting EXCEPT ![b] = @ - 1]
    /\ UNCHANGED deviceVars
    /\ UNCHANGED <<bridgeVars, codecVars, dispatch, pingVars, setupVars,
                   subVars, cmdVars, launches, recovered>>

\* CallbackHolder.call without the test of the weak reference
HolderCallsAlways(p) == TRUE

\* CallbackHolder.call: "obj = self.wref(); if obj:"
HolderCalls(p) == alive[p]

\* _read_next, one turn of "for callback in self._callbacks": await the
\* holder's call (which runs the owner's read_output when the owner is still
\* there), then go to the next holder or, past the last one, create the next
\* _read_next task
Dispatch(b, k) ==
    /\ k \in 1..Len(dispatch[b])
    /\ LET d == dispatch[b][k]
           p == _callbacks[b][d.idx]
       IN
       /\ IF HolderCalls(p)
          THEN received' = [received EXCEPT ![p] = Append(@, d.msg)]
          ELSE UNCHANGED received
       /\ IF d.idx < Len(_callbacks[b])
          THEN /\ dispatch' = [dispatch EXCEPT ![b][k].idx = @ + 1]
               /\ UNCHANGED readWaiting
          ELSE /\ dispatch' = [dispatch EXCEPT ![b] =
                      SubSeq(@, 1, k - 1) \o SubSeq(@, k + 1, Len(@))]
               /\ readWaiting' = [readWaiting EXCEPT ![b] = @ + 1]
    /\ UNCHANGED deviceVars
    /\ UNCHANGED <<bridgeVars, codecVars, pingVars, setupVars, alive, cmdVars,
                   launches, recovered>>

\* -------------------------------------------------- CasetaBridge._ping
\* _ping: asyncio.sleep(60) is over, the task calls codec ping() and is
\* suspended in it.  A _reconnect task created by the cycle before has run
\* by then: it was ready 60 seconds ago.
PingWakes(b) ==
    /\ pingSleeping[b] > 0
    /\ reconnectReady[b] = 0
    /\ reconnectOpening[b] < MaxPendingOpens
    /\ pingSleeping' = [pingSleeping EXCEPT ![b] = @ - 1]
    /\ pingAwaiting' = [pingAwaiting EXCEPT ![b] = @ + 1]
    /\ UNCHANGED deviceVars
    /\ UNCHANGED <<bridgeVars, codecVars, readVars, reconnectReady,
                   reconnectOpening, setupVars, subVars, cmdVars, launches,
                   recovered>>

\* _ping creating a reconnect attempt in every cycle
PingFindsDownAlways(b) == TRUE

\* _ping: "if not self._casetify.is_connected()"
PingFindsDown(b) == ~is_connected(b)

\* _ping creating the next cycle only when it found the codec connected
PingReturnsUnlessDown(b) ==
    /\ pingAwaiting[b] > 0
    /\ pingAwaiting' = [pingAwaiting EXCEPT ![b] = @ - 1]
    /\ reconnectReady' = [reconnectReady EXCEPT ![b] =
                             IF ~is_connected(b) THEN @ + 1 ELSE @]
    /\ pingSleeping' = [pingSleeping EXCEPT ![b] =
                           IF ~is_connected(b) THEN @ ELSE @ + 1]
    /\ UNCHANGED deviceVars
    /\ UNCHANGED <<bridgeVars, codecVars, readVars, reconnectOpening,
                   setupVars, subVars, cmdVars, launches, recovered>>

\* _ping from the return of codec ping(): create a _reconnect task when the
\* codec is not connected, then create the next _ping task
PingReturns(b) ==
    /\ pingAwaiting[b] > 0
    /\ pingAwaiting' = [pingAwaiting EXCEPT ![b] = @ - 1]
    /\ reconnectReady' = [reconnectReady EXCEPT ![b] =
                             IF PingFindsDown(b) THEN @ + 1 ELSE @]
    /\ pingSleeping' = [pingSleeping EXCEPT ![b] = @ + 1]
    /\ UNCHANGED deviceVars
    /\ UNCHANGED <<bridgeVars, codecVars, readVars, reconnectOpening,
                   setupVars, subVars, cmdVars, launches, recovered>>

\* ---------------------------------------------- CasetaBridge._reconnect
\* _reconnect: "if not self._casetify.is_connected()"
ReconnectNeeded(b) == ~is_connected(b)

\* _reconnect up to its await: call codec open(host) when the codec is not
\* connected, else end
ReconnectRuns(b) ==
    /\ reconnectReady[b] > 0
    /\ reconnectReady' = [reconnectReady EXCEPT ![b] = @ - 1]
    /\ reconnectOpening' = [reconnectOpening EXCEPT ![b] =
                               IF ReconnectNeeded(b) THEN @ + 1 ELSE @]
    /\ UNCHANGED deviceVars
    /\ UNCHANGED <<bridgeVars, codecVars, readVars, pingSleeping, pingAwaiting,
                   setupVars, subVars, cmdVars, launches, recovered>>

\* codec open(host) returns to _reconnect, having established the session
\* (ok) or not; _reconnect logs the outcome and ends
ReconnectOpenReturns(b, ok) ==
    /\ reconnectOpening[b] > 0
    /\ reconnectOpening' = [reconnectOpening EXCEPT ![b] = @ - 1]
    /\ link' = [link EXCEPT ![b] = IF ok THEN "up" ELSE @]
    /\ recovered' = [recovered EXCEPT ![b] = @ \/ ok]
    /\ UNCHANGED deviceVars
    /\ UNCHANGED <<bridgeVars, inbox, nextMsg, readVars, pingSleeping,
                   pingAwaiting, reconnectReady, setupVars, subVars, cmdVars,
                   launches>>

\* ------------------------------------------ CasetaBridge.write and query
\* write, query: "if self._casetify is None"
NoCodec(b) == _casetify[b] = None

\* what write and query do with a command: False without a codec object,
\* else the command is handed to the codec and the result is True
CommandResult(b, op) ==
    IF NoCodec(b)
    THEN [op |-> op, conn |-> is_connected(b), ret |-> FALSE, forwarded |-> 0]
    ELSE [op |-> op, conn |-> is_connected(b), ret |-> TRUE, forwarded |-> 1]

\* write(mode, integration, action, value) called by an entity of a bridge
write(b) ==
    /\ b <= nBridges
    /\ nCmds < MaxCmds
    /\ nCmds' = nCmds + 1
    /\ lastCmd' = CommandResult(b, "write")
    /\ UNCHANGED deviceVars
    /\ UNCHANGED <<bridgeVars, codecVars, readVars, pingVars, setupVars,
                   subVars, launches, recovered>>

\* query(mode, integration, action) called by an entity of a bridge
query(b) ==
    /\ b <= nBridges
    /\ nCmds < MaxCmds
    /\ nCmds' = nCmds + 1
    /\ lastCmd' = CommandResult(b, "query")
    /\ UNCHANGED deviceVars
    /\ UNCHANGED <<bridgeVars, codecVars, readVars, pingVars, setupVars,
                   subVars, launches, recovered>>

\* ------------------------------------------------------------------- Next
SetupStep ==
    \/ \E p \in Setups : CasetaInit(p)
    \/ \E p \in Setups : BridgeOpen(p)
    \/ \E p \in Setups, ok \in BOOLEAN : OpenReturns(p, ok)
    \/ \E p \in Setups : Register(p)
    \/ \E p \in Setups : Start(p)

\* the bridge's loops and the transport
NextLoops ==
    \/ SetupStep
    \/ \E b \in BridgeIds, mode \in Modes \cup {NoMode} : Arrive(b, mode)
    \/ \E b \in BridgeIds : Sever(b)
    \/ \E b \in BridgeIds : ReadReturns(b)
    \/ \E b \in BridgeIds : ReadFails(b)
    \/ \E b \in BridgeIds : \E k \in 1..Len(dispatch[b]) : Dispatch(b, k)
    \/ \E b \in BridgeIds : PingWakes(b)
    \/ \E b \in BridgeIds : PingReturns(b)
    \/ \E b \in BridgeIds : ReconnectRuns(b)
    \/ \E b \in BridgeIds, ok \in BOOLEAN : ReconnectOpenReturns(b, ok)

\* the loops, the transport and the release of subscribers
Next ==
    \/ NextLoops
    \/ \E p \in Setups : Release(p)

Spec == Init /\ [][Next]_vars

\* the entities' commands on a bridge that is set up, dropped and
\* reconnected
NextCmd ==
    \/ SetupStep
    \/ \E b \in BridgeIds : Sever(b)
    \/ \E b \in BridgeIds : PingWakes(b)
    \/ \E b \in BridgeIds : PingReturns(b)
    \/ \E b \in BridgeIds : ReconnectRuns(b)
    \/ \E b \in BridgeIds, ok \in BOOLEAN : ReconnectOpenReturns(b, ok)
    \/ \E b \in BridgeIds : write(b)
    \/ \E b \in BridgeIds : query(b)

SpecCmd == Init /\ [][NextCmd]_vars

\* the platform setups alone, for any assignment of hosts
NextHosts == SetupStep

SpecHosts == InitHosts /\ [][NextHosts]_vars

\* the tasks of the bridge's own loops run when they can; the transport,
\* the entities and the release of objects are under no obligation
Fairness ==
    /\ \A p \in Setups : WF_vars(CasetaInit(p) \/ BridgeOpen(p) \/ Register(p)
                                  \/ Start(p))
    /\ \A b \in BridgeIds :
          /\ WF_vars(ReadReturns(b))
          /\ WF_vars(ReadFails(b))
          /\ WF_vars(\E k \in 1..Len(dispatch[b]) : Dispatch(b, k))
          /\ WF_vars(PingWakes(b))
          /\ WF_vars(PingReturns(b))
          /\ WF_vars(ReconnectRuns(b))
          /\ WF_vars(\E ok \in BOOLEAN : ReconnectOpenReturns(b, ok))

FairSpec == Init /\ [][NextLoops]_vars /\ Fairness

\* ------------------------------------------------------------ observers
\* the _read_next tasks of a bridge that have not ended
ReadTasks(b) == readWaiting[b] + Len(dispatch[b])
\* the _ping tasks of a bridge that have not ended
PingTasks(b) == pingSleeping[b] + pingAwaiting[b]
\* the numbers of the messages a setup's read_output was called with
ReceivedIds(p) == {received[p][i].id : i \in 1..Len(received[p])}
\* the owners registered with a bridge
Subscribers(b) == {_callbacks[b][j] : j \in 1..Len(_callbacks[b])}

\* ------------------------------------------------------------------ claims

\* a real message with number n is waiting in the codec of bridge b
Waiting(b, n) ==
    \E i \in 1..Len(inbox[b]) : inbox[b][i].id = n /\ inbox[b][i].mode # NoMode
\* message n has reached every live subscriber of bridge b
Reached(b, n) == \A p \in Subscribers(b) : alive[p] => n \in ReceivedIds(p)

\* C1: once a reconnect attempt of the keep-alive loop has succeeded after
\* the read loop ended on a read failure, every real message the codec then
\* produces is eventually dispatched to the live subscribers (unless the
\* transport is lost again first).
C1_DispatchRecovers ==
    \A b \in BridgeIds, n \in 1..MaxMsgs :
        (recovered[b] /\ ReadTasks(b) = 0 /\ is_connected(b) /\ Waiting(b, n))
            ~> (Reached(b, n) \/ ~is_connected(b))

\* C2: a keep-alive cycle creates exactly one reconnect attempt when it
\* finds the codec not connected and none when it finds it connected;
\* nothing else creates one; an attempt calls the codec's open once, and
\* only when the codec is not connected; when the attempt returns the codec
\* is connected (success) or as it was (failure).
C2_OneAttemptPerCycle ==
    [][\A b \in BridgeIds :
         LET cycleEnds == pingAwaiting'[b] < pingAwaiting[b] IN
         /\ cycleEnds =>
               reconnectReady'[b] =
                   reconnectReady[b] + (IF is_connected(b) THEN 0 ELSE 1)
         /\ ~cycleEnds => reconnectReady'[b] <= reconnectReady[b]
         /\ reconnectOpening'[b] > reconnectOpening[b] =>
               /\ reconnectOpening'[b] = reconnectOpening[b] + 1
               /\ reconnectReady'[b] = reconnectReady[b] - 1
               /\ ~is_connected(b)
         /\ (reconnectReady'[b] < reconnectReady[b] /\ ~is_connected(b)) =>
               reconnectOpening'[b] = reconnectOpening[b] + 1
         /\ reconnectOpening'[b] < reconnectOpening[b] =>
               (link'[b] = "up" \/ link'[b] = link[b])
      ]_vars

\* C2 witness: a reconnect attempt has succeeded and the codec is connected
\* again, the keep-alive loop waiting for its next cycle
C2_Witness ==
    \E b \in BridgeIds :
        recovered[b] /\ is_connected(b) /\ pingSleeping[b] = 1
                     /\ reconnectReady[b] = 0 /\ reconnectOpening[b] = 0

\* C3: from start() on there is exactly one keep-alive task, and the end of
\* every cycle, whatever it found, creates exactly one next cycle.
C3_KeepAliveNeverStops ==
    /\ [](\A b \in BridgeIds : _hass[b] => PingTasks(b) = 1)
    /\ [][\A b \in BridgeIds :
            pingAwaiting'[b] < pingAwaiting[b] =>
                pingSleeping'[b] = pingSleeping[b] + 1]_vars

\* C3 witness: a cycle has found the transport lost, created a reconnect
\* attempt and the next cycle
C3_Witness ==
    \E b \in BridgeIds :
        link[b] = "lost" /\ reconnectReady[b] = 1 /\ pingSleeping[b] = 1

\* C4: write() and query() return False and hand nothing to the codec when
\* the codec is not connected, and hand one command to it and return True
\* when it is.
C4_SoftFail ==
    lastCmd.op # "none" =>
        IF lastCmd.conn
        THEN lastCmd.ret /\ lastCmd.forwarded = 1
        ELSE ~lastCmd.ret /\ lastCmd.forwarded = 0

\* C5: open() returns True exactly when the codec is connected at its
\* return.
C5_OpenReportsOutcome ==
    \A p \in Setups :
        openCall[p].returned => (openCall[p].ret <=> openCall[p].connAtRet)

\* C6: open() calls the codec's open exactly when the codec is not
\* connected at the call (a call made while another call of the codec's
\* open is still suspended is left aside).
C6_OpenWhenNotConnected ==
    \A p \in Setups :
        (openCall[p].called /\ ~openCall[p].busyAtCall) =>
            (openCall[p].codecOpen <=> ~openCall[p].connAtCall)

\* C7: the setups of one host share one CasetaBridge, one is constructed
\* per host, and at most one codec object is ever constructed for it.
C7_OnePerHost ==
    /\ \A p, q \in Setups :
          (bridge[p] # None /\ bridge[q] # None
             /\ setupHost[p] = setupHost[q]) => bridge[p] = bridge[q]
    /\ \A h \in Hosts : Cardinality({b \in BridgeIds : _host[b] = h}) <= 1
    /\ \A b \in BridgeIds : _casetify[b] <= 1

\* C7 witness: a setup has gone through an open() that returned while the
\* open() of another setup of the same host is suspended in the codec
C7_Witness ==
    \E p, q \in Setups :
        /\ p # q /\ setupHost[p] = setupHost[q]
        /\ pc[p] = "opening" /\ pc[q] = "done"

\* C8: start() launches the two loops once, and a bridge never has more
\* than one read-loop task nor more than one keep-alive task.
C8_StartOnce ==
    \A b \in BridgeIds :
        /\ launches[b] <= 1
        /\ (launches[b] = 1) <=> _hass[b]
        /\ ReadTasks(b) <= 1
        /\ PingTasks(b) <= 1

\* C8 witness: start() has been called by every setup of the bridge
C8_Witness ==
    /\ \A p \in Setups : pc[p] = "done" /\ bridge[p] = 1
    /\ launches[1] = 1 /\ ReadTasks(1) = 1 /\ PingTasks(1) = 1

C10_NonOwning ==
    /\ [][/\ \A p \in Setups : ~alive[p] => received'[p] = received[p]
          /\ \A b \in BridgeIds :
                ReadTasks(b)' < ReadTasks(b) =>
                    (link[b] = "lost" /\ dispatch'[b] = dispatch[b])
       ]_vars
    /\ [](\A b \in BridgeIds : \A k \in 1..Len(dispatch[b]) :
            \A j \in 1..Len(_callbacks[b]) :
               (j < dispatch[b][k].idx /\ alive[_callbacks[b][j]]) =>
                   dispatch[b][k].msg.id \in ReceivedIds(_callbacks[b][j]))

\* C10 witness: a message has passed the holder of a released owner
\* without reaching it and has reached the live subscriber behind it
C10_Witness ==
    \E b \in BridgeIds :
        /\ Len(_callbacks[b]) = 2
        /\ ~alive[_callbacks[b][1]] /\ alive[_callbacks[b][2]]
        /\ ReadTasks(b) = 1
        /\ \E n \in ReceivedIds(_callbacks[b][2]) :
              n \notin ReceivedIds(_callbacks[b][1])


(***************************************************************************)
(* The button processor of a Pico remote                                   *)
(***************************************************************************)

\* ------------------------------------------------------ integer helpers
\* Python's a | b on non-negative integers
RECURSIVE BitOr(_, _)
BitOr(a, b) ==
    IF a = 0 THEN b
    ELSE IF b = 0 THEN a
    ELSE (IF a % 2 = 1 \/ b % 2 = 1 THEN 1 ELSE 0) + 2 * BitOr(a \div 2, b \div 2)

\* Python's 1 << n for n >= 0
RECURSIVE ShiftOne(_)
ShiftOne(n) == IF n = 0 THEN 1 ELSE 2 * ShiftOne(n - 1)

\* the smallest element of a non-empty set of numbers
SetMin(S) == CHOOSE x \in S : \A y \in S : x <= y

\* CasetaPicoRemote.__init__: the lowest button number, starting from 100
minbutton ==
    SetMin({MinButtonStart} \cup {n \in PicoButtons : n < MinButtonStart})

\* -------------------------------------- PicoRemoteButtonProcessor.__init__
\* str(list)[1:-1]: the numbers in decimal, separated by ", "
RECURSIVE ListKey(_)
ListKey(seq) ==
    IF seq = <<>> THEN ""
    ELSE IF Len(seq) = 1 THEN ToString(seq[1])
    ELSE ToString(seq[1]) \o ", " \o ListKey(Tail(seq))

\* self.silent_press
silent_press(r) == comb_config[r].silent_press

combinations_first_wins(r) ==
    LET rl == comb_config[r].combinations
        keys == {ListKey(rl[i].combination) : i \in 1..Len(rl)}
        first(k) == CHOOSE i \in 1..Len(rl) :
                       /\ ListKey(rl[i].combination) = k
                       /\ \A j \in 1..(i - 1) :
                             ListKey(rl[j].combination) # k
    IN [k \in keys |-> rl[first(k)].code]

\* self.combinations: the dict filled by the loop over the configured
\* combinations, a later entry replacing an earlier one with the same key
combinations(r) ==
    LET rl == comb_config[r].combinations
        keys == {ListKey(rl[i].combination) : i \in 1..Len(rl)}
        last(k) == CHOOSE i \in 1..Len(rl) :
                      /\ ListKey(rl[i].combination) = k
                      /\ \A j \in (i + 1)..Len(rl) :
                            ListKey(rl[j].combination) # k
    IN [k \in keys |-> rl[last(k)].code]

\* self.max_history_length
RECURSIVE MaxLen(_)
MaxLen(rl) ==
    IF rl = <<>> THEN 0
    ELSE LET m == MaxLen(Tail(rl))
             n == Len(Head(rl).combination)
         IN IF n > m THEN n ELSE m

max_history_length_plus_one(r) == MaxLen(comb_config[r].combinations) + 1

max_history_length(r) == MaxLen(comb_config[r].combinations)

\* ----------------------------------------------- entries of the pico log
\* what the processor P does or is told, with its state and key_history at
\* that moment and, for a classified code, whether it comes more than the
\* press timeout after last_press_time
Entry(P, k, v) ==
    [k |-> k, v |-> v, st |-> P.state, hist |-> P.key_history,
     late |-> k = "code" /\ P.elapsed > PressTimeout]
Classified(P, c) == Entry(P, "code", c)
Matched(P, c) == Entry(P, "rule", c)
Published(P, v) == Entry(P, "pub", v)

\* ------------------------------------------------- processor operations
update_without_reset(P, st) ==
    [P EXCEPT !._state = st,
              !.log = Append(@, Published(P, st))]

\* update: update_state(state), async_write_ha_state(), update_state(0),
\* async_write_ha_state()
update(P, st) ==
    [P EXCEPT !._state = 0,
              !.log = @ \o <<Published(P, st), Published(P, 0)>>]

reset_without_cancel(P) ==
    [P EXCEPT !.timeout_flags = <<FALSE, FALSE>>,
              !.state = "idle",
              !.button = 0]

\* reset: clear the flags, go idle, forget the button and call both cancel
\* functions; cancelling a timer that has fired or was cancelled does nothing
reset(P) ==
    [P EXCEPT !.timeout_flags = <<FALSE, FALSE>>,
              !.state = "idle",
              !.button = 0,
              !.timers = [i \in 1..2 |->
                             IF P.timeout_handle[i] THEN @[i] - 1 ELSE @[i]],
              !.timeout_handle = <<FALSE, FALSE>>]

process_combination_timeout_inclusive(P, r, modified_button) ==
    LET hist == IF P.elapsed >= PressTimeout
                THEN <<modified_button>>
                ELSE Append(P.key_history, modified_button)
        key == ListKey(hist)
        P1 == [P EXCEPT !.elapsed = 0, !.key_history = hist]
        P2 == IF key \in DOMAIN combinations(r)
              THEN [update([P1 EXCEPT !.log =
                               Append(@, Matched(P, combinations(r)[key]))],
                           combinations(r)[key])
                       EXCEPT !.key_history = <<>>]
              ELSE P1
    IN IF Len(P2.key_history) >= max_history_length(r)
       THEN [P2 EXCEPT !.key_history = <<>>]
       ELSE P2

\* process_combination
process_combination(P, r, modified_button) ==
    LET hist == IF P.elapsed > PressTimeout
                THEN <<modified_button>>
                ELSE Append(P.key_history, modified_button)
        key == ListKey(hist)
        P1 == [P EXCEPT !.elapsed = 0, !.key_history = hist]
        P2 == IF key \in DOMAIN combinations(r)
              THEN [update([P1 EXCEPT !.log =
                               Append(@, Matched(P, combinations(r)[key]))],
                           combinations(r)[key])
                       EXCEPT !.key_history = <<>>]
              ELSE P1
    IN IF Len(P2.key_history) >= max_history_length(r)
       THEN [P2 EXCEPT !.key_history = <<>>]
       ELSE P2

do_press_silently(P, r, modifier) ==
    LET modified_button == BitOr(P.button, modifier)
        P0 == [P EXCEPT !.log = Append(@, Classified(P, modified_button))]
        P2 == reset(P0)
    IN IF DOMAIN combinations(r) # {}
       THEN process_combination(P2, r, modified_button)
       ELSE P2

\* do_press
do_press(P, r, modifier) ==
    LET modified_button == BitOr(P.button, modifier)
        P0 == [P EXCEPT !.log = Append(@, Classified(P, modified_button))]
        P1 == IF ~silent_press(r) THEN update(P0, modified_button) ELSE P0
        P2 == reset(P1)
    IN IF DOMAIN combinations(r) # {}
       THEN process_combination(P2, r, modified_button)
       ELSE P2

double_press_timeout_flag_only(P, r) ==
    [P EXCEPT !.timeout_flags[1] = TRUE]

\* double_press_timeout
double_press_timeout(P, r) ==
    LET P1 == IF P.state = "wait_for_second_press"
              THEN do_press(P, r, Modifier_short)
              ELSE P
    IN [P1 EXCEPT !.timeout_flags[1] = TRUE]

long_press_timeout_as_short(P, r) ==
    LET P1 == IF P.state = "first_press"
              THEN do_press(P, r, Modifier_short)
              ELSE P
    IN [P1 EXCEPT !.timeout_flags[2] = TRUE]

\* long_press_timeout
long_press_timeout(P, r) ==
    LET P1 == IF P.state = "first_press"
              THEN do_press(P, r, Modifier_long)
              ELSE P
    IN [P1 EXCEPT !.timeout_flags[2] = TRUE]

\* handle_idle_state: on a press start both timers, keeping their cancel
\* functions in timeout_handle
handle_idle_state(P, r, btn) ==
    IF btn # 0
    THEN [P EXCEPT !.timeout_flags = <<FALSE, FALSE>>,
                   !.state = "first_press",
                   !.timers = [i \in 1..2 |-> @[i] + 1],
                   !.timeout_handle = <<TRUE, TRUE>>]
    ELSE P

handle_first_press_ignoring_flag(P, r, btn) ==
    IF btn = 0 THEN [P EXCEPT !.state = "wait_for_second_press"] ELSE P

\* handle_first_press_state
handle_first_press_state(P, r, btn) ==
    IF btn = 0
    THEN IF P.timeout_flags[1] = FALSE
         THEN [P EXCEPT !.state = "wait_for_second_press"]
         ELSE do_press(P, r, Modifier_short)
    ELSE P

handle_second_press_as_short(P, r, btn) ==
    IF btn # 0 THEN do_press(P, r, Modifier_short) ELSE P

\* handle_wait_for_second_press_state
handle_wait_for_second_press_state(P, r, btn) ==
    IF btn # 0 THEN do_press(P, r, Modifier_double) ELSE P

process_without_preemption(P, r, btn) ==
    LET P1 == IF btn # 0 THEN [P EXCEPT !.button = btn] ELSE P
    IN CASE P1.state = "idle" -> handle_idle_state(P1, r, btn)
         [] P1.state = "first_press" -> handle_first_press_state(P1, r, btn)
         [] P1.state = "wait_for_second_press" ->
                handle_wait_for_second_press_state(P1, r, btn)

\* PicoRemoteButtonProcessor.process
process(P, r, btn) ==
    LET P1 == IF btn # 0
              THEN [(IF P.button # 0 /\ P.button # btn
                     THEN do_press(P, r, Modifier_short)
                     ELSE P) EXCEPT !.button = btn]
              ELSE P
    IN CASE P1.state = "idle" -> handle_idle_state(P1, r, btn)
         [] P1.state = "first_press" -> handle_first_press_state(P1, r, btn)
         [] P1.state = "wait_for_second_press" ->
                handle_wait_for_second_press_state(P1, r, btn)

remote_process_detecting(P, r, btn) == process(P, r, btn)

\* CasetaPicoRemote.process
remote_process(P, r, btn) ==
    IF enable_long_and_double
    THEN process(P, r, btn)
    ELSE [P EXCEPT !._state = btn, !.log = Append(@, Published(P, btn))]


\* ------------------------------------------------------------- actions
\* CasetaSensorData.read_output: the early returns, for a message that is
\* not a press or release of a known remote
SensorDrops(mode, integration, value) ==
    \/ mode # "DEVICE"
    \/ integration \notin sensor_devices
    \/ value \notin {"PRESS", "RELEASE"}

\* CasetaSensorData.read_output past its early returns: the remotes after
\* device.process(state)
SensorProcessed(integration, action, value) ==
    LET st == IF value = "PRESS"
              THEN ShiftOne(action - minbutton)
              ELSE 0
        P == pico[integration]
        P0 == [P EXCEPT !.log = Append(@,
                  Entry(P, IF value = "PRESS" THEN "press"
                           ELSE "release", st))]
    IN [pico EXCEPT ![integration] = remote_process(P0, integration, st)]

\* CasetaSensorData.read_output: one dispatched message for the sensor
\* platform; a message that is not a press or release of a known remote is
\* dropped
sensor_read_output(mode, integration, action, value) ==
    /\ UNCHANGED <<connVars, echoVars>>
    /\ UNCHANGED <<enable_long_and_double, sensor_devices, comb_config>>
    /\ IF SensorDrops(mode, integration, value)
       THEN UNCHANGED <<pico, nEvents>>
       ELSE /\ nEvents < MaxEvents
            /\ nEvents' = nEvents + 1
            /\ pico' = SensorProcessed(integration, action, value)

\* the timer started for double_press_time expires and its callback runs
DoubleTimerFires(r) ==
    /\ pico[r].timers[1] > 0
    /\ LET P == pico[r]
           P0 == [P EXCEPT !.timers[1] = @ - 1,
                           !.timeout_handle[1] = @ /\ P.timers[1] > 1,
                           !.log = Append(@, Entry(P, "dbl", 0))]
       IN pico' = [pico EXCEPT ![r] = double_press_timeout(P0, r)]
    /\ UNCHANGED <<connVars, echoVars>>
    /\ UNCHANGED <<enable_long_and_double, sensor_devices, comb_config,
                   nEvents>>

\* the timer started for long_press_time expires and its callback runs; it
\* was started together with a double timer for a shorter time
LongTimerFires(r) ==
    /\ pico[r].timers[2] > 0
    /\ pico[r].timers[1] = 0
    /\ LET P == pico[r]
           P0 == [P EXCEPT !.timers[2] = @ - 1,
                           !.timeout_handle[2] = @ /\ P.timers[2] > 1,
                           !.log = Append(@, Entry(P, "long", 0))]
       IN pico' = [pico EXCEPT ![r] = long_press_timeout(P0, r)]
    /\ UNCHANGED <<connVars, echoVars>>
    /\ UNCHANGED <<enable_long_and_double, sensor_devices, comb_config,
                   nEvents>>

\* time passes: time.time() - last_press_time grows, first to exactly the
\* press timeout and then beyond it
Tick ==
    /\ \E r \in Remotes : pico[r].elapsed <= PressTimeout
    /\ pico' = [r \in Remotes |->
                   [pico[r] EXCEPT !.elapsed =
                       IF @ < PressTimeout THEN PressTimeout
                       ELSE PressTimeout + 1]]
    /\ UNCHANGED <<connVars, echoVars>>
    /\ UNCHANGED <<enable_long_and_double, sensor_devices, comb_config,
                   nEvents>>

\* ------------------------------------------------------- specifications
\* the sensor platform is set up with the remotes of devs, each with one of
\* the configurations cfgs, and detect as the long and double press setting
InitSensor(detect, devs, cfgs) ==
    /\ InitCommon /\ setupHost = [p \in Setups |-> "h1"]
    /\ enable_long_and_double = detect
    /\ sensor_devices = devs
    /\ comb_config \in {[r \in Remotes |-> c] : c \in cfgs}
    /\ pico = [r \in Remotes |-> NewPico]
    /\ nEvents = 0
    /\ data_devices = {}
    /\ level = [d \in SimpleDevices |-> 0]
    /\ level0 = [d \in SimpleDevices |-> 0]
    /\ echoed = <<>>

\* messages the bridge dispatches to the sensor platform, as
\* <<mode, integration, action, value>>: the presses and the release of the
\* buttons of the remotes, and one message for each reason to drop a message
SensorMessages ==
    {<<"DEVICE", r, b, "PRESS">> : r \in sensor_devices, b \in PicoButtons}
        \cup {<<"DEVICE", r, 2, "RELEASE">> : r \in sensor_devices}
        \cup {<<"OUTPUT", 2, 2, "PRESS">>,
              <<"DEVICE", UnknownId, 2, "PRESS">>}
        \cup {<<"DEVICE", 2, 3, v>> :
                 v \in ButtonValues \ {"PRESS", "RELEASE"}}

SensorMessage ==
    \E m \in SensorMessages : sensor_read_output(m[1], m[2], m[3], m[4])

\* the event loop runs a message handler or a due timer callback
NextPress ==
    \/ SensorMessage
    \/ \E r \in Remotes : DoubleTimerFires(r)
    \/ \E r \in Remotes : LongTimerFires(r)

\* two remotes with long and double press detection and no combination
\* rule, silent or not; the clock is never read
InitPress ==
    InitSensor(TRUE, Remotes, {c \in CombConfigs : c.combinations = <<>>})

SpecPress == InitPress /\ [][NextPress]_vars

\* the same, and time passes between the steps
NextComb == NextPress \/ Tick

\* one remote with long and double press detection, audible presses and
\* combination rules
InitComb ==
    InitSensor(TRUE, {2}, {c \in CombConfigs :
                              ~c.silent_press /\ c.combinations # <<>>})

SpecComb == InitComb /\ [][NextComb]_vars

\* one remote without long and double press detection, with any
\* combination configuration
InitRaw == InitSensor(FALSE, {2}, CombConfigs)

NextRaw == SensorMessage

SpecRaw == InitRaw /\ [][NextRaw]_vars

\* ------------------------------------------------- reading a pico log
\* the values of the entries of kind k in the log s
Values(s, k) ==
    LET t == SelectSeq(s, LAMBDA e : e.k = k)
    IN [i \in 1..Len(t) |-> t[i].v]

\* the position of the first press after position i of the log s, or one
\* past its end
NextPressAfter(s, i) ==
    LET J == {j \in (i + 1)..Len(s) : s[j].k = "press"}
    IN IF J = {} THEN Len(s) + 1 ELSE SetMin(J)

\* the part of the log s after position i and before position j
Between(s, i, j) == SubSeq(s, i + 1, j - 1)

\* what a processor that is not silent publishes for the codes cs
RECURSIVE Pulses(_)
Pulses(cs) ==
    IF cs = <<>> THEN <<>> ELSE <<Head(cs), 0>> \o Pulses(Tail(cs))

\* position i of the log of remote r starts a double press of button mask b:
\* press while idle, then release and press of b before any timer fires
DoublePressAt(r, i, b) ==
    LET s == pico[r].log
    IN /\ i + 2 <= Len(s)
       /\ s[i].k = "press" /\ s[i].st = "idle" /\ s[i].v = b
       /\ s[i + 1].k = "release"
       /\ s[i + 2].k = "press" /\ s[i + 2].v = b

\* C11: a press of a button while idle, then its release and a second press
\* of the same button before the double timer fires, classify exactly one
\* code, the button with the DOUBLE modifier, and none with SHORT or LONG, up
\* to the next press, so also after the following release and whatever timer
\* runs; unless silent the remote publishes that code (and then 0) only
C11_DoublePress ==
    \A r \in sensor_devices :
        \A i \in 1..Len(pico[r].log) :
            \A b \in {ShiftOne(n - minbutton) : n \in PicoButtons} :
                DoublePressAt(r, i, b) =>
                    LET s == pico[r].log
                        seg == Between(s, i + 2, NextPressAfter(s, i + 2))
                    IN /\ Values(seg, "code") = <<BitOr(b, Modifier_double)>>
                       /\ Values(seg, "rule") = <<>>
                       /\ Values(seg, "pub") =
                             IF silent_press(r) THEN <<>>
                             ELSE <<BitOr(b, Modifier_double), 0>>

\* a double press has been classified and the button released again
C11_Witness ==
    \E i \in 1..Len(pico[2].log) :
        /\ DoublePressAt(2, i, 2)
        /\ i + 3 <= Len(pico[2].log)
        /\ pico[2].log[Len(pico[2].log)].k = "release"
        /\ NextPressAfter(pico[2].log, i + 2) = Len(pico[2].log) + 1

\* the button masks a remote can report
Masks == {ShiftOne(n - minbutton) : n \in PicoButtons}

\* position i of the log of remote r is a press of button mask b while idle
\* and the next entries are of the kinds ks, in that order
PressThen(r, i, b, ks) ==
    LET s == pico[r].log
    IN /\ i + Len(ks) <= Len(s)
       /\ s[i].k = "press" /\ s[i].st = "idle" /\ s[i].v = b
       /\ \A n \in 1..Len(ks) : s[i + n].k = ks[n]

\* the codes classified, rule results and published values of remote r
\* after position i of its log and before the next press are exactly cs,
\* none, and cs each followed by 0 (nothing if silent)
OnlyClassifies(r, i, cs) ==
    LET s == pico[r].log
        seg == Between(s, i, NextPressAfter(s, i))
    IN /\ Values(seg, "code") = cs
       /\ Values(seg, "rule") = <<>>
       /\ Values(seg, "pub") = IF silent_press(r) THEN <<>> ELSE Pulses(cs)

\* C12: a press of a button while idle that is neither released nor followed
\* by another press until the long timer fires classifies exactly one code,
\* the button with the LONG modifier, when the long timer fires; the double
\* timer firing before it classifies nothing, and nothing more is classified
\* up to the next press, so no SHORT when the release arrives afterwards
C12_LongPress ==
    \A r \in sensor_devices :
        \A i \in 1..Len(pico[r].log) :
            \A b \in Masks :
                /\ PressThen(r, i, b, <<"dbl">>) /\ i + 2 <= Len(pico[r].log)
                      => pico[r].log[i + 2].k \in {"long", "release", "press"}
                /\ PressThen(r, i, b, <<"dbl", "long">>)
                      => /\ i + 3 <= Len(pico[r].log)
                         /\ pico[r].log[i + 3].k = "code"
                         /\ OnlyClassifies(r, i, <<BitOr(b, Modifier_long)>>)

\* a long press has been classified and the button released afterwards
C12_Witness ==
    \E i \in 1..Len(pico[2].log) :
        /\ PressThen(2, i, 1, <<"dbl", "long">>)
        /\ pico[2].log[Len(pico[2].log)].k = "release"
        /\ NextPressAfter(pico[2].log, i) = Len(pico[2].log) + 1

\* C13: a press of a button while idle that is released before the long
\* timer fires, with no second press, classifies exactly one code, the
\* button itself (SHORT): at the release when the double timer has fired
\* before it, and when the double timer fires when the release came first;
\* nothing else is classified up to the next press
C13_ShortPress ==
    \A r \in sensor_devices :
        \A i \in 1..Len(pico[r].log) :
            \A b \in Masks :
                /\ PressThen(r, i, b, <<"dbl", "release">>)
                      => /\ i + 3 <= Len(pico[r].log)
                         /\ pico[r].log[i + 3].k = "code"
                         /\ OnlyClassifies(r, i, <<BitOr(b, Modifier_short)>>)
                /\ PressThen(r, i, b, <<"release", "dbl">>)
                      => /\ i + 3 <= Len(pico[r].log)
                         /\ pico[r].log[i + 3].k = "code"
                         /\ OnlyClassifies(r, i, <<BitOr(b, Modifier_short)>>)

\* both kinds of short press have been classified
C13_Witness ==
    \E i, j \in 1..Len(pico[2].log) :
        /\ PressThen(2, i, 1, <<"dbl", "release">>)
        /\ PressThen(2, j, 2, <<"release", "dbl">>)

\* ------------------------------------------------ combination matching
\* the positions of the classified codes in the log s, in order
CodeAt(s) ==
    LET I == {i \in 1..Len(s) : s[i].k = "code"}
        nth[n \in 1..Cardinality(I)] ==
            IF n = 1 THEN SetMin(I)
            ELSE SetMin({i \in I : i > nth[n - 1]})
    IN nth

\* the part of the log s that the code at position p caused: up to the next
\* entry that is not a publication or a rule result
CausedBy(s, p) ==
    LET J == {j \in (p + 1)..Len(s) : s[j].k \notin {"pub", "rule"}}
    IN Between(s, p, IF J = {} THEN Len(s) + 1 ELSE SetMin(J))

\* key_history of remote r once the code at position p of its log has been
\* processed: what the next entry finds
HistoryAfter(r, p) ==
    LET s == pico[r].log
        J == {j \in (p + 1)..Len(s) : s[j].k \notin {"pub", "rule"}}
    IN IF J = {} THEN pico[r].key_history ELSE s[SetMin(J)].hist

\* the rules of remote r
Rules(r) ==
    {comb_config[r].combinations[i] :
        i \in 1..Len(comb_config[r].combinations)}

\* the claim as stated, C14: whenever the classified codes of a remote
\* contain the sequence of one of its rules as consecutive codes, each but
\* the first at most the press timeout after the one before, the result
\* code of the rule is emitted exactly once right after the last of them
C14_CombinationMatch ==
    \A r \in sensor_devices : \A rule \in Rules(r) :
        LET s == pico[r].log
            at == CodeAt(s)
            n == Len(rule.combination)
        IN \A t \in 1..Len(at) :
              ( /\ t + n - 1 <= Len(at)
                /\ \A m \in 1..n : s[at[t + m - 1]].v = rule.combination[m]
                /\ \A m \in 2..n : ~s[at[t + m - 1]].late )
              => Values(CausedBy(s, at[t + n - 1]), "rule") = <<rule.code>>

\* the sequence that the code at position p of the log of remote r makes
\* of the history: the code alone after a gap, the history and the code
\* otherwise
HistoryWith(r, p) ==
    LET e == pico[r].log[p]
    IN IF e.late THEN <<e.v>> ELSE Append(e.hist, e.v)

\* the last rule in the list rl with the sequence q
LastFor(rl, q) ==
    rl[CHOOSE i \in 1..Len(rl) :
          /\ rl[i].combination = q
          /\ \A j \in (i + 1)..Len(rl) : rl[j].combination # q]

\* C14 as amended: whenever a classified code makes the history of a remote
\* (the codes since it was last emptied or since the last gap longer than
\* the press timeout) equal to the sequence of one of its rules, the result
\* code of the last rule configured with that sequence is emitted exactly
\* once right after that code, published after the code itself, and the
\* history is empty afterwards; when the history equals no rule sequence no
\* result code is emitted
C14_HistoryMatch ==
    \A r \in sensor_devices :
        LET s == pico[r].log
            rl == comb_config[r].combinations
        IN \A p \in 1..Len(s) :
              s[p].k = "code" =>
                 IF \E rule \in Rules(r) : rule.combination = HistoryWith(r, p)
                 THEN LET code == LastFor(rl, HistoryWith(r, p)).code
                      IN /\ Values(CausedBy(s, p), "rule") = <<code>>
                         /\ Values(CausedBy(s, p), "pub") =
                               <<s[p].v, 0, code, 0>>
                         /\ HistoryAfter(r, p) = <<>>
                 ELSE /\ Values(CausedBy(s, p), "rule") = <<>>
                      /\ Values(CausedBy(s, p), "pub") = <<s[p].v, 0>>

\* codes 1 and 2 have been classified in a row and the rule for <<1, 2>>
\* has emitted its result, the one of the last rule with that sequence
C14_Witness ==
    /\ comb_config[2].combinations = <<Rule12b, Rule12>>
    /\ \E p \in 1..Len(pico[2].log) :
          /\ pico[2].log[p].k = "code"
          /\ HistoryWith(2, p) = <<1, 2>>
          /\ Values(CausedBy(pico[2].log, p), "rule") = <<99>>

\* the length of the longest rule sequence of remote r
Longest(r) ==
    CHOOSE n \in {Len(rule.combination) : rule \in Rules(r)} :
        \A rule \in Rules(r) : Len(rule.combination) <= n

\* C15: a code classified more than the press timeout after the previous
\* one is matched alone, the earlier codes taking no part: a rule result is
\* emitted only if the code alone is a rule sequence, and the history is
\* left as the code alone, or empty after a match or at the longest rule
\* length; a code at most the press timeout after the previous one is
\* appended to the history instead. With the only rule <<1, 2>> -> 99, code
\* 1 and then code 2 after a longer gap emit no 99 and leave history <<2>>
C15_CombinationTimeout ==
    \A r \in sensor_devices :
        LET s == pico[r].log
        IN \A p \in 1..Len(s) :
              s[p].k = "code" =>
                 LET c == s[p].v
                     alone == \E rule \in Rules(r) : rule.combination = <<c>>
                     emitted == Values(CausedBy(s, p), "rule")
                     whole == Append(s[p].hist, c)
                 IN /\ s[p].late =>
                          /\ (emitted # <<>>) = alone
                          /\ HistoryAfter(r, p) =
                                IF alone \/ Longest(r) <= 1
                                THEN <<>> ELSE <<c>>
                    /\ ~s[p].late =>
                          HistoryAfter(r, p) =
                             IF emitted # <<>> \/ Longest(r) <= Len(whole)
                             THEN <<>> ELSE whole
                    /\ ( /\ comb_config[r].combinations = <<Rule12>>
                         /\ s[p].hist = <<1>> /\ c = 2 /\ s[p].late )
                          => emitted = <<>> /\ HistoryAfter(r, p) = <<2>>

\* with the only rule <<1, 2>> -> 99, code 1 has been classified and code 2
\* after a gap longer than the press timeout, and code 2 again after
\* exactly the press timeout
C15_Witness ==
    /\ comb_config[2].combinations = <<Rule12>>
    /\ \E p \in 1..Len(pico[2].log) :
          /\ pico[2].log[p].k = "code" /\ pico[2].log[p].late
          /\ pico[2].log[p].hist = <<1>> /\ pico[2].log[p].v = 2
          /\ HistoryAfter(2, p) = <<2>>
    /\ pico[2].elapsed = PressTimeout

PassesCodes(r) ==
    /\ Values(pico[r].log, "pub") = Pulses(Values(pico[r].log, "code"))
    /\ Values(pico[r].log, "rule") = <<>>
    /\ pico[r].key_history = <<>>
    /\ \A p \in 1..Len(pico[r].log) : pico[r].log[p].hist = <<>>

\* the claim as stated, C16: every remote configured without combination
\* rules publishes every code it classifies, unmodified, emits no rule
\* result and records no history
C16_Bypass ==
    \A r \in sensor_devices :
        comb_config[r].combinations = <<>> => PassesCodes(r)

\* C16 as amended: every remote configured without combination rules and
\* not silent publishes every code it classifies, unmodified, emits no rule
\* result and records no history
C16_BypassAudible ==
    \A r \in sensor_devices :
        (comb_config[r].combinations = <<>> /\ ~silent_press(r))
            => PassesCodes(r)

\* a remote without rules that is not silent has classified and published a
\* short press and a long press
C16_Witness ==
    /\ comb_config[2].combinations = <<>> /\ ~silent_press(2)
    /\ \E p, q \in 1..Len(pico[2].log) :
          /\ pico[2].log[p].k = "code" /\ pico[2].log[p].v = 1
          /\ pico[2].log[p + 1].k = "pub" /\ pico[2].log[p + 1].v = 1
          /\ pico[2].log[q].k = "code"
          /\ pico[2].log[q].v = BitOr(2, Modifier_long)
          /\ pico[2].log[q + 1].k = "pub"
          /\ pico[2].log[q + 1].v = BitOr(2, Modifier_long)

\* ------------------------------------------------------- pass-through
\* the press and release entries of the log s, in order
Received(s) == SelectSeq(s, LAMBDA e : e.k \in {"press", "release"})

\* C17: without long and double press detection the states a remote
\* publishes are the bitmasks it receives, 1 or 2 for a press of button 2 or
\* 3 and 0 for a release, in order and one for each message, right after
\* it; no timer is started, nothing is classified and no rule result is
\* emitted
C17_PassThrough ==
    \A r \in sensor_devices :
        LET s == pico[r].log
        IN /\ Values(s, "pub") =
                 [i \in 1..Len(Received(s)) |-> Received(s)[i].v]
           /\ \A i \in 1..Len(s) :
                 /\ s[i].k \in {"press", "release", "pub"}
                 /\ s[i].k = "press" => s[i].v \in {1, 2}
                 /\ s[i].k = "release" => s[i].v = 0
                 /\ s[i].k \in {"press", "release"} =>
                       /\ i + 1 <= Len(s)
                       /\ s[i + 1].k = "pub" /\ s[i + 1].v = s[i].v
           /\ pico[r].timers = <<0, 0>>
           /\ pico[r].state = "idle"
           /\ pico[r].key_history = <<>>
           /\ pico[r]._state = IF s = <<>> THEN 0 ELSE s[Len(s)].v

\* a remote with combination rules and without detection has published two
\* presses of button 3 and a release
C17_Witness ==
    /\ comb_config[2].combinations = <<Rule1, Rule12>>
    /\ Values(pico[2].log, "pub") = <<2, 2, 0>>

\* --------------------------------------------------------------- timers
\* remote r has at most one double and one long timer pending, each the one
\* its cancel function in timeout_handle is for, and none while idle
TimersOwned(r) ==
    /\ \A i \in 1..2 :
          /\ pico[r].timers[i] <= 1
          /\ pico[r].timers[i] = 1 => pico[r].timeout_handle[i]
    /\ pico[r].state = "idle" => pico[r].timers = <<0, 0>>
    /\ pico[r].timers[1] = 1 => pico[r].timers[2] = 1

\* C19: after every step each processor has at most one pending double
\* timer and one pending long timer, those of its current press cycle, and
\* none while idle, so that no timer of an earlier cycle is left to fire;
\* and a step of one processor, its reset included, leaves the timers of
\* every other processor as they were
C19_Timers ==
    [][ /\ \A r \in Remotes : TimersOwned(r)'
        /\ \A r, q \in Remotes :
              (r # q /\ pico'[r] # pico[r]) =>
                  /\ pico'[q].timers = pico[q].timers
                  /\ pico'[q].timeout_handle = pico[q].timeout_handle ]_vars

\* remote 2 has classified a double press and is idle again with its timers
\* cancelled, while both timers of remote 3 are pending
C19_Witness ==
    /\ Values(pico[2].log, "code") = <<BitOr(1, Modifier_double)>>
    /\ pico[2].state = "idle" /\ pico[2].timers = <<0, 0>>
    /\ pico[3].state = "first_press" /\ pico[3].timers = <<1, 1>>
    /\ pico[3].log[1].k = "press" /\ pico[2].log[1].k = "press"


(***************************************************************************)
(* The state echo of lights, switches, covers and fans                     *)
(***************************************************************************)

EchoesAnyAction(mode, integration, action) ==
    /\ mode = "OUTPUT"
    /\ integration \in data_devices

\* CasetaData.read_output: the message is for one of the devices, in OUTPUT
\* mode and with the SET action
Echoes(mode, integration, action) ==
    /\ mode = "OUTPUT"
    /\ integration \in data_devices
    /\ action = "SET"

\* update_state of a light, switch, cover or fan: value becomes the state
\* of device d
update_state(lv, d, value) == [lv EXCEPT ![d] = value]

\* CasetaData.read_output: one dispatched message for a platform of simple
\* devices
data_read_output(mode, integration, action, value) ==
    /\ Len(echoed) < MaxEchoes
    /\ echoed' = Append(echoed, <<mode, integration, action, value>>)
    /\ level' = IF Echoes(mode, integration, action)
                THEN update_state(level, integration, value)
                ELSE level
    /\ UNCHANGED <<data_devices, level0>>
    /\ UNCHANGED <<connVars, picoVars>>

\* messages the bridge dispatches to the platform, as
\* <<mode, integration, action, value>>: every level for every device, and
\* one message for each reason to drop a message
EchoMessages ==
    {<<"OUTPUT", d, "SET", v>> : d \in SimpleDevices, v \in Levels}
        \cup {<<"DEVICE", 5, "SET", 50>>,
              <<"OUTPUT", UnknownId, "SET", 50>>}
        \cup {<<"OUTPUT", 5, a, 100>> : a \in OutputActions \ {"SET"}}

\* the platform is set up with both devices, each in one of two states
InitEcho ==
    /\ InitCommon /\ setupHost = [p \in Setups |-> "h1"]
    /\ enable_long_and_double = FALSE
    /\ sensor_devices = {}
    /\ comb_config = [r \in Remotes |-> NoCombConfig]
    /\ pico = [r \in Remotes |-> NewPico]
    /\ nEvents = 0
    /\ data_devices = SimpleDevices
    /\ level0 \in [SimpleDevices -> {0, 100}]
    /\ level = level0
    /\ echoed = <<>>

NextEcho ==
    \E m \in EchoMessages : data_read_output(m[1], m[2], m[3], m[4])

SpecEcho == InitEcho /\ [][NextEcho]_vars

\* the value of the last message of s in OUTPUT mode with the SET action
\* for integration id d, or v0 if there is none
RECURSIVE LastSet(_, _, _)
LastSet(s, d, v0) ==
    IF s = <<>> THEN v0
    ELSE LET m == s[Len(s)]
         IN IF m[1] = "OUTPUT" /\ m[2] = d /\ m[3] = "SET"
            THEN m[4]
            ELSE LastSet(SubSeq(s, 1, Len(s) - 1), d, v0)

\* C20: after any sequence of dispatched messages the state of every simple
\* device is the value of the last message in OUTPUT mode with the SET
\* action for its integration id, or its initial state if there was none;
\* any other message leaves it as it was
C20_Echo ==
    \A d \in data_devices : level[d] = LastSet(echoed, d, level0[d])

\* device 5 was set to 50, then messages of another mode, another action and
\* for another device followed
C20_Witness ==
    /\ Len(echoed) = 3
    /\ echoed[1] = <<"OUTPUT", 5, "SET", 50>>
    /\ echoed[2] \in {<<"DEVICE", 5, "SET", 50>>, <<"OUTPUT", 5, "OTHER", 100>>}
    /\ echoed[3] = <<"OUTPUT", 6, "SET", 0>>
    /\ level[5] = 50 /\ level0[6] = 100 /\ level[6] = 0


(***************************************************************************)
(* Steps of the button processor                                           *)
(***************************************************************************)

\* the step appends to the log of remote r an entry of kind k and value v
\* and then the entries it causes
Handles(r, k, v) ==
    /\ Len(pico'[r].log) > Len(pico[r].log)
    /\ SubSeq(pico'[r].log, 1, Len(pico[r].log)) = pico[r].log
    /\ pico'[r].log[Len(pico[r].log) + 1].k = k
    /\ pico'[r].log[Len(pico[r].log) + 1].v = v

\* what the step appends to the log of remote r after its first new entry
Caused(r) ==
    SubSeq(pico'[r].log, Len(pico[r].log) + 2, Len(pico'[r].log))

\* C21: a press of button b2 that a processor handles in first_press or
\* wait_for_second_press with another pending button b1 classifies exactly
\* one code, b1 with the SHORT modifier and not DOUBLE, before anything is
\* done for b2, cancels the timers of b1 and leaves the processor in
\* first_press with pending button b2, both timeout flags clear and one
\* newly started timer of each kind
C21_Preemption ==
    [][ \A r \in sensor_devices : \A b1, b2 \in Masks :
           ( /\ pico[r].state \in {"first_press", "wait_for_second_press"}
             /\ pico[r].button = b1 /\ b2 # b1
             /\ Handles(r, "press", b2) )
           => /\ Values(Caused(r), "code") = <<BitOr(b1, Modifier_short)>>
              /\ Values(Caused(r), "pub") =
                    IF silent_press(r) THEN <<>>
                    ELSE <<BitOr(b1, Modifier_short), 0>>
              /\ pico'[r].state = "first_press"
              /\ pico'[r].button = b2
              /\ pico'[r].timeout_flags = <<FALSE, FALSE>>
              /\ pico'[r].timers = <<1, 1>>
              /\ pico'[r].timeout_handle = <<TRUE, TRUE>> ]_vars

\* a press of button 3 was handled while button 2 was pending in
\* first_press with the double timer fired, and then a press of button 2
\* while button 3 was pending in wait_for_second_press
C21_Witness ==
    \E i, j \in 1..(Len(pico[2].log) - 1) :
        /\ pico[2].log[i].k = "press" /\ pico[2].log[i].v = 2
        /\ pico[2].log[i].st = "first_press"
        /\ pico[2].log[i - 1].k = "dbl"
        /\ pico[2].log[i + 1].k = "code" /\ pico[2].log[i + 1].v = 1
        /\ pico[2].log[j].k = "press" /\ pico[2].log[j].v = 1
        /\ pico[2].log[j].st = "wait_for_second_press"
        /\ pico[2].log[j + 1].k = "code" /\ pico[2].log[j + 1].v = 2
        /\ pico[2].state = "first_press" /\ pico[2].button = 1


\* one remote with long and double press detection and the rules for <<1>>
\* and <<1, 2>>, silent or not, and time passes between the steps
InitSilent ==
    InitSensor(TRUE, {2}, {c \in CombConfigs :
                              c.combinations = <<Rule1, Rule12>>})

SpecSilent == InitSilent /\ [][NextComb]_vars

\* the kinds of the entries of the log s
Kinds(s) == [i \in 1..Len(s) |-> s[i].k]

\* the values of the entries of the log s
Vals(s) == [i \in 1..Len(s) |-> s[i].v]

\* C22: every code a remote classifies is followed in its log by exactly
\* two publications, the code and then 0, unless the remote is silent, and
\* after them, if a rule matched, by the rule result and its two
\* publications, the result and then 0; a silent remote publishes nothing
\* for the code itself. Nothing is published otherwise, and between steps
\* the state of the remote is 0
C22_DiscreteEmission ==
    \A r \in sensor_devices :
        LET s == pico[r].log
        IN /\ pico[r]._state = 0
           /\ \A p \in 1..Len(s) :
                 /\ s[p].k = "pub" =>
                       p > 1 /\ s[p - 1].k \in {"code", "pub", "rule"}
                 /\ s[p].k = "rule" =>
                       p > 1 /\ s[p - 1].k \in {"code", "pub"}
                 /\ s[p].k = "code" =>
                       LET seg == CausedBy(s, p)
                           own == IF silent_press(r) THEN <<>>
                                  ELSE <<"pub", "pub">>
                           ownv == IF silent_press(r) THEN <<>>
                                   ELSE <<s[p].v, 0>>
                       IN \/ Kinds(seg) = own /\ Vals(seg) = ownv
                          \/ \E x \in {rule.code : rule \in Rules(r)} :
                                /\ Kinds(seg) = own \o <<"rule", "pub", "pub">>
                                /\ Vals(seg) = ownv \o <<x, x, 0>>

\* a silent remote has classified codes 1 and 2 and published only the
\* result of the rule for <<1>>
C22_Witness ==
    /\ silent_press(2)
    /\ Values(pico[2].log, "code") = <<1, 2>>
    /\ Values(pico[2].log, "pub") = <<50, 0>>


(***************************************************************************)
(* One host: the read loop dispatching to the button processors            *)
(***************************************************************************)

\* the sensor and then the light platform have been set up for host h1:
\* one bridge, its session established, both callbacks registered and the
\* two loops started
RunningBridge ==
    /\ host_list = [h \in Hosts |-> IF h = "h1" THEN 1 ELSE None]
    /\ nBridges = 1
    /\ _host = [b \in BridgeIds |-> IF b = 1 THEN "h1" ELSE NoHost]
    /\ _casetify = [b \in BridgeIds |-> IF b = 1 THEN 1 ELSE None]
    /\ _hass = [b \in BridgeIds |-> b = 1]
    /\ _callbacks = [b \in BridgeIds |->
                        IF b = 1 THEN <<"sensor", "light">> ELSE <<>>]
    /\ link = [b \in BridgeIds |-> IF b = 1 THEN "up" ELSE "closed"]
    /\ inbox = [b \in BridgeIds |-> <<>>]
    /\ readWaiting = [b \in BridgeIds |-> IF b = 1 THEN 1 ELSE 0]
    /\ dispatch = [b \in BridgeIds |-> <<>>]
    /\ pingSleeping = [b \in BridgeIds |-> IF b = 1 THEN 1 ELSE 0]
    /\ pingAwaiting = [b \in BridgeIds |-> 0]
    /\ reconnectReady = [b \in BridgeIds |-> 0]
    /\ reconnectOpening = [b \in BridgeIds |-> 0]
    /\ setupHost = [p \in Setups |-> "h1"]
    /\ pc = [p \in Setups |-> "done"]
    /\ bridge = [p \in Setups |-> 1]
    /\ alive = [p \in Setups |-> TRUE]
    /\ received = [p \in Setups |-> <<>>]
    /\ openCall = [p \in Setups |->
          [called |-> TRUE, connAtCall |-> p = "light",
           busyAtCall |-> FALSE, codecOpen |-> p = "sensor",
           returned |-> TRUE, ret |-> TRUE, connAtRet |-> TRUE]]
    /\ lastCmd = NoCmd
    /\ launches = [b \in BridgeIds |-> IF b = 1 THEN 1 ELSE 0]
    /\ recovered = [b \in BridgeIds |-> FALSE]
    /\ nextMsg = 1
    /\ nCmds = 0

\* the running bridge, with remote 2 of the sensor platform detecting long
\* and double presses, without combination rules and not silent, and no
\* device of the light platform
InitHost ==
    /\ RunningBridge
    /\ enable_long_and_double = TRUE
    /\ sensor_devices = {2}
    /\ comb_config = [r \in Remotes |-> NoCombConfig]
    /\ pico = [r \in Remotes |-> NewPico]
    /\ nEvents = 0
    /\ data_devices = {}
    /\ level = [d \in SimpleDevices |-> 0]
    /\ level0 = [d \in SimpleDevices |-> 0]
    /\ echoed = <<>>

\* the transport delivers a frame that the codec parses into the message
\* m, <<mode, integration, action, value>>
ArriveMessage(b, m) ==
    /\ is_connected(b)
    /\ Len(inbox[b]) < MaxInbox
    /\ nextMsg <= MaxEvents
    /\ inbox' = [inbox EXCEPT ![b] = Append(@,
                    [id |-> nextMsg, mode |-> m[1], integration |-> m[2],
                     action |-> m[3], value |-> m[4]])]
    /\ nextMsg' = nextMsg + 1
    /\ UNCHANGED deviceVars
    /\ UNCHANGED <<bridgeVars, link, readVars, pingVars, setupVars, subVars,
                   cmdVars, launches, recovered>>

\* _read_next, one turn of "for callback in self._callbacks": the holder's
\* call runs the read_output of its owner, CasetaSensorData for the sensor
\* platform and CasetaData with no device for the light platform, to its
\* end; past the last holder the next _read_next task is created
DispatchToHandler(b, k) ==
    /\ k \in 1..Len(dispatch[b])
    /\ LET d == dispatch[b][k]
           p == _callbacks[b][d.idx]
           m == d.msg
       IN
       /\ IF HolderCalls(p)
          THEN received' = [received EXCEPT ![p] = Append(@, m)]
          ELSE UNCHANGED received
       /\ IF /\ HolderCalls(p) /\ p = "sensor"
             /\ ~SensorDrops(m.mode, m.integration, m.value)
          THEN /\ pico' = SensorProcessed(m.integration, m.action, m.value)
               /\ nEvents' = nEvents + 1
          ELSE UNCHANGED <<pico, nEvents>>
       /\ IF d.idx < Len(_callbacks[b])
          THEN /\ dispatch' = [dispatch EXCEPT ![b][k].idx = @ + 1]
               /\ UNCHANGED readWaiting
          ELSE /\ dispatch' = [dispatch EXCEPT ![b] =
                      SubSeq(@, 1, k - 1) \o SubSeq(@, k + 1, Len(@))]
               /\ readWaiting' = [readWaiting EXCEPT ![b] = @ + 1]
    /\ UNCHANGED <<enable_long_and_double, sensor_devices, comb_config,
                   echoVars>>
    /\ UNCHANGED <<bridgeVars, codecVars, pingVars, setupVars, alive, cmdVars,
                   launches, recovered>>

\* the event loop runs the read loop of the host or a due timer callback
NextHost ==
    \/ \E b \in BridgeIds, m \in SensorMessages : ArriveMessage(b, m)
    \/ \E b \in BridgeIds : ReadReturns(b)
    \/ \E b \in BridgeIds : \E k \in 1..Len(dispatch[b]) :
          DispatchToHandler(b, k)
    \/ \E r \in Remotes : DoubleTimerFires(r)
    \/ \E r \in Remotes : LongTimerFires(r)

SpecHost == InitHost /\ [][NextHost]_vars

\* C23: on every host at most one message is being handled, each message
\* reaches all subscribers before the next one reaches any, and every
\* change of a button processor is one whole step: either the handling of
\* one press or release, in the very step in which the sensor platform
\* receives that message, or one timer callback, with everything the step
\* classifies and publishes, whichever of the two comes first
C23_Atomic ==
    [][ /\ \A b \in BridgeIds : Len(dispatch'[b]) + readWaiting'[b] <= 1
        /\ Len(received'["sensor"]) - Len(received'["light"]) \in {0, 1}
        /\ SubSeq(received'["sensor"], 1, Len(received'["light"]))
              = received'["light"]
        /\ \A r \in Remotes :
              pico'[r] # pico[r] =>
                 /\ \A q \in Remotes \ {r} : pico'[q] = pico[q]
                 /\ \A i \in 1..Len(Caused(r)) :
                       Caused(r)[i].k \in {"code", "rule", "pub"}
                 /\ \/ /\ \/ Handles(r, "dbl", 0)
                          \/ Handles(r, "long", 0)
                       /\ UNCHANGED <<received, dispatch>>
                    \/ /\ Len(received'["sensor"]) = Len(received["sensor"]) + 1
                       /\ LET m == received'["sensor"][Len(received'["sensor"])]
                          IN /\ m.integration = r
                             /\ \/ /\ m.value = "PRESS"
                                   /\ Handles(r, "press",
                                              ShiftOne(m.action - minbutton))
                                \/ /\ m.value = "RELEASE"
                                   /\ Handles(r, "release", 0)
        /\ received'["sensor"] # received["sensor"] =>
              LET m == received'["sensor"][Len(received'["sensor"])]
              IN ~SensorDrops(m.mode, m.integration, m.value)
                    => pico'[m.integration] # pico[m.integration] ]_vars

\* both platforms have received a press and its release, the double timer
\* fired between the two and the release classified the short press
C23_Witness ==
    /\ Len(received["light"]) = 2
    /\ Kinds(pico[2].log) = <<"press", "dbl", "release", "code", "pub", "pub">>
    /\ pico[2].timers = <<0, 0>>


(***************************************************************************)
(* Press cycles                                                            *)
(***************************************************************************)

\* one remote with long and double press detection and no combination
\* rule, silent or not
InitCycle ==
    InitSensor(TRUE, {2}, {c \in CombConfigs : c.combinations = <<>>})

\* a timer that is pending and not cancelled expires
TimersFire ==
    \A r \in Remotes : /\ WF_vars(DoubleTimerFires(r))
                       /\ WF_vars(LongTimerFires(r))

FairPress == InitCycle /\ [][NextPress]_vars /\ TimersFire

\* the positions of the log s where a press cycle starts: a press handled
\* while idle, or a press that pre-empts another button, which is followed
\* by the SHORT code of that other button
CycleStarts(s) ==
    {p \in 1..Len(s) :
        /\ s[p].k = "press"
        /\ \/ s[p].st = "idle"
           \/ /\ p + 1 <= Len(s)
              /\ s[p + 1].k = "code"
              /\ s[p + 1].v # s[p].v
              /\ s[p + 1].v < Modifier_double}

\* the positions of the log s where a code is classified
CodePositions(s) == {p \in 1..Len(s) : s[p].k = "code"}

\* C24: a processor is idle exactly when its pending button is 0; every
\* press cycle that has ended has classified exactly one code and a cycle
\* under way none yet; and a processor that is not idle becomes idle again,
\* its timers firing unless they are cancelled
C24_CyclesEnd ==
    /\ [](\A r \in sensor_devices :
             LET s == pico[r].log
             IN /\ (pico[r].state = "idle") = (pico[r].button = 0)
                /\ Cardinality(CodePositions(s)) =
                      Cardinality(CycleStarts(s))
                         - (IF pico[r].state = "idle" THEN 0 ELSE 1))
    /\ \A r \in Remotes :
          (pico[r].state # "idle") ~> (pico[r].state = "idle")

\* three press cycles have ended, one by the double timer, one by
\* pre-emption and one by the long timer
C24_Witness ==
    /\ pico[2].state = "idle"
    /\ Values(pico[2].log, "code") = <<1, 1, BitOr(2, Modifier_long)>>
    /\ Cardinality(CycleStarts(pico[2].log)) = 3

\* ------------------------------------------------- A handler that raises
\* _read_next creating the next _read_next task although a callback raised
DispatchRaisesAndReads(b, k) ==
    /\ k \in 1..Len(dispatch[b])
    /\ LET d == dispatch[b][k]
           p == _callbacks[b][d.idx]
       IN
       /\ HolderCalls(p)
       /\ received' = [received EXCEPT ![p] = Append(@, d.msg)]
       /\ dispatch' = [dispatch EXCEPT ![b] =
              SubSeq(@, 1, k - 1) \o SubSeq(@, k + 1, Len(@))]
       /\ readWaiting' = [readWaiting EXCEPT ![b] = @ + 1]
    /\ UNCHANGED deviceVars
    /\ UNCHANGED <<bridgeVars, codecVars, pingVars, setupVars, alive, cmdVars,
                   launches, recovered>>

\* _read_next, one turn of "for callback in self._callbacks" in which the
\* owner's read_output raises: nothing catches the exception in
\* CallbackHolder.call nor in _read_next, so the task ends inside the loop,
\* before the remaining holders and before create_task(self._read_next())
DispatchRaises(b, k) ==
    /\ k \in 1..Len(dispatch[b])
    /\ LET d == dispatch[b][k]
           p == _callbacks[b][d.idx]
       IN
       /\ HolderCalls(p)
       /\ received' = [received EXCEPT ![p] = Append(@, d.msg)]
       /\ dispatch' = [dispatch EXCEPT ![b] =
              SubSeq(@, 1, k - 1) \o SubSeq(@, k + 1, Len(@))]
       /\ UNCHANGED readWaiting
    /\ UNCHANGED deviceVars
    /\ UNCHANGED <<bridgeVars, codecVars, pingVars, setupVars, alive, cmdVars,
                   launches, recovered>>

\* the running bridge with its two subscribers; a handler may raise on any
\* message
InitRaise == RunningBridge /\ InitDevices

NextRaise ==
    \/ \E b \in BridgeIds, mode \in Modes \cup {NoMode} : Arrive(b, mode)
    \/ \E b \in BridgeIds : ReadReturns(b)
    \/ \E b \in BridgeIds : \E k \in 1..Len(dispatch[b]) : Dispatch(b, k)
    \/ \E b \in BridgeIds : \E k \in 1..Len(dispatch[b]) :
          DispatchRaises(b, k)
    \/ \E b \in BridgeIds : PingWakes(b)
    \/ \E b \in BridgeIds : PingReturns(b)
    \/ \E p \in Setups : Release(p)

SpecRaise == InitRaise /\ [][NextRaise]_vars

\* the read loop of bridge b has ended: no task waits in codec read() and
\* none walks the callbacks
ReadLoopEnded(b) == readWaiting[b] = 0 /\ dispatch[b] = <<>>

\* the callbacks registered after the one the dispatch of bridge b is at
LaterSubscribers(b) ==
    {_callbacks[b][j] : j \in (dispatch[b][1].idx + 1)..Len(_callbacks[b])}

\* C25: when a subscriber's handler raises during a dispatch (the dispatch
\* ends without a new read), the subscribers registered after it do not
\* receive that message and no read is scheduled; once the read loop has
\* ended no subscriber of the connection receives any message again, while
\* a keep-alive task still exists and can take its next step
C25_RaiseEndsReadLoop ==
    [][\A b \in BridgeIds :
        /\ (/\ dispatch[b] # <<>>
            /\ dispatch'[b] = <<>>
            /\ \/ dispatch[b][1].idx < Len(_callbacks[b])
               \/ readWaiting'[b] = readWaiting[b])
           => /\ ReadLoopEnded(b)'
              /\ \A q \in LaterSubscribers(b) :
                    /\ received'[q] = received[q]
                    /\ dispatch[b][1].msg.id \notin ReceivedIds(q)
        /\ (_casetify[b] # None /\ ReadLoopEnded(b))
           => /\ ReadLoopEnded(b)'
              /\ \A q \in Subscribers(b) : received'[q] = received[q]
              /\ pingSleeping[b] + pingAwaiting[b] = 1
              /\ ENABLED (PingWakes(b) \/ PingReturns(b))]_vars

\* the sensor platform's handler raised on the first message: the light
\* platform never received it, a later message stays unread in the codec
\* and the keep-alive is in its next ping
C25_Witness ==
    /\ ReadLoopEnded(1)
    /\ ReceivedIds("sensor") = {1}
    /\ received["light"] = <<>>
    /\ alive["light"]
    /\ inbox[1] # <<>>
    /\ pingAwaiting[1] = 1

\* ------------------------------------------------ Codec open attempts
\* the calls of the codec's open(host) of bridge b that have not returned:
\* those made by open() and those made by _reconnect
OpenAttempts(b) ==
    Cardinality({p \in Setups : bridge[p] = b /\ pc[p] = "opening"})
       + reconnectOpening[b]

\* C26: at any time at most one codec open attempt is in progress for a
\* connection, whether made by the initial open() or by a _reconnect task
C26_SingleOpenAttempt == \A b \in BridgeIds : OpenAttempts(b) <= 1

====
